---- MODULE Spec2Model ----
(***************************************************************************)
(* A model of crosvm's shell-like scripting helpers                        *)
(* (tools/impl/common.py): the argument tokenizer, Command values and      *)
(* their composition, the execution modes, pipe chains, the parallel       *)
(* executor and the batch partitioner.                                     *)
(*                                                                         *)
(* Strings are sequences of one-character strings.  Every subsystem has    *)
(* its own specification (SpecTok, SpecCmd, ...); a specification leaves   *)
(* the variables of the other subsystems at their idle values.             *)
(***************************************************************************)
EXTENDS Integers, Sequences, FiniteSets, TLC

VARIABLES
    tkItems,    \* tokenizer: the argument list handed to __parse_cmd
    tkTokens,   \* tokenizer: the list __parse_cmd returned
    tkPc        \* tokenizer: "input" before the call, "done" after it

VARIABLES
    cmds,       \* the Command instances created so far, in creation order
    lists,      \* the token-list objects: lists[ref] is a list's content
    dicts,      \* the env_vars dict objects: dicts[ref] is a dict's content
    osPath,     \* PATH of os.environ: a sequence of directories
    binaries,   \* the executables on disk: pairs <<directory, name>>
    cwdFiles,   \* the names that exist as filesystem entries relative to cwd
    lastOp,     \* the last operation called and what it returned
    exRun       \* the last execution: the Command run and the program started

VARIABLES
    bSource,    \* batched: source_list
    bMax,       \* batched: max_batch_size
    bBase,      \* foreach: the token vector of the Command it is called on
    bSize,      \* batched: batch_size, once the generator has started
    bIndex,     \* batched: the loop index of range(0, len, batch_size)
    bOut,       \* the batches batched has yielded so far
    bCmds,      \* the token vectors of the Commands foreach has yielded so far
    bPc         \* "new", "iter", "done" (StopIteration) or "raised"

VARIABLES
    fgCmd,      \* fg: the Command run: [args, stdin]
    fgQuiet,    \* fg: the quiet argument
    fgCheck,    \* fg: the check argument
    fgProc,     \* fg: what the process did: [rc, out]
    fgResult,   \* fg: how the call ended and what the user was shown
    fgPc        \* "call" before the call, "done" after it

VARIABLES
    ppDepth,    \* pipe chain: the number of upstream stages of the Command run
    ppMode,     \* pipe chain: the synchronous mode called
    ppCheck,    \* pipe chain: the check argument
    ppProc,     \* the process of each stage (0: downstream, ppDepth: first)
    ppActive,   \* subprocess._active: dropped handles of running processes
    ppRc,       \* the exit code of the downstream process
    ppPc        \* where the call is

VARIABLES
    parN,       \* parallel: the number of Commands; Command i is commands[i-1]
    parCpu,     \* os.cpu_count(): the number of pool threads
    parMode,    \* "fg" or "stdout"
    parCheck,   \* the check argument of fg
    parChunk,   \* MapResult._chunksize
    parStatus,  \* per Command: "pending", "running", "done" or "never"
    parRes,     \* per Command: what its fg()/stdout() call returned or raised
    parWorker,  \* per pool thread: the chunk it is working on, 0 when idle
    parTaken,   \* the number of chunks taken from the task queue
    parValue,   \* MapResult._value: the result list, or the stored exception
    parSuccess, \* MapResult._success
    parLeft,    \* MapResult._number_left
    parRet,     \* what the call returned or raised
    parEarly,   \* some Command finished before one submitted ahead of it
    parPc       \* "call", "map", "returned", "raised"

VARIABLES
    dupInput,   \* duplicate filter: the lines read from standard input
    dupData,    \* duplicate filter: data, the stripped lines
    dupIndex,   \* duplicate filter: i, the index of the next line of the loop
    dupSeen,    \* duplicate filter: last_seen, as a set of pairs <<key, index>>
    dupOut,     \* duplicate filter: the lines printed on standard output
    dupExit,    \* duplicate filter: the exit status and the message of sys.exit
    dupPc       \* "loop" while the loop runs, "exited" once the process ended

tkVars == <<tkItems, tkTokens, tkPc>>
dupVars == <<dupInput, dupData, dupIndex, dupSeen, dupOut, dupExit, dupPc>>
parVars == <<parN, parCpu, parMode, parCheck, parChunk, parStatus, parRes, parWorker,
             parTaken, parValue, parSuccess, parLeft, parRet, parEarly, parPc>>
pipeVars == <<ppDepth, ppMode, ppCheck, ppProc, ppActive, ppRc, ppPc>>
batchVars == <<bSource, bMax, bBase, bSize, bIndex, bOut, bCmds, bPc>>
fgVars == <<fgCmd, fgQuiet, fgCheck, fgProc, fgResult, fgPc>>
cmdVars == <<cmds, lists, dicts, osPath, binaries, cwdFiles, lastOp, exRun>>

vars == <<tkVars, cmdVars, batchVars, fgVars, pipeVars, parVars, dupVars>>

\* The variables of the other subsystems, which a subsystem's actions leave alone
notTok == <<cmdVars, batchVars, fgVars, pipeVars, parVars, dupVars>>
notCmd == <<tkVars, batchVars, fgVars, pipeVars, parVars, dupVars>>
notBatch == <<tkVars, cmdVars, fgVars, pipeVars, parVars, dupVars>>
notFg == <<tkVars, cmdVars, batchVars, pipeVars, parVars, dupVars>>
notPipe == <<tkVars, cmdVars, batchVars, fgVars, parVars, dupVars>>
notPar == <<tkVars, cmdVars, batchVars, fgVars, pipeVars, dupVars>>
notDup == <<tkVars, cmdVars, batchVars, fgVars, pipeVars, parVars>>

----------------------------------------------------------------------------
(* The idle values a specification gives the variables of the other subsystems *)

None == "None"

\* A program on disk is a pair <<directory, name>>; these stand in its place
Unset == <<"unset", <<>>>>             \* the attribute was never assigned
NotFound == <<"None", <<>>>>           \* shutil.which found nothing
FileNotFoundError == <<"FileNotFoundError", <<>>>>   \* exec found nothing

\* result is the index of the Command returned, 0 when the call raised
Op(name, recv, target, result) ==
    [op |-> name, recv |-> recv, target |-> target, result |-> result,
     raised |-> IF result = 0 /\ name \in {"construct", "pipeargs"}
                THEN "ValueError" ELSE None]

NoExit == [status |-> -1, message |-> <<>>]   \* the process is still running

DupIdle ==
    /\ dupInput = <<>> /\ dupData = <<>> /\ dupIndex = 0 /\ dupSeen = {}
    /\ dupOut = <<>> /\ dupExit = NoExit /\ dupPc = "idle"

TokIdle == tkItems = <<>> /\ tkTokens = <<>> /\ tkPc = "idle"

CmdIdle ==
    /\ cmds = <<>> /\ lists = <<>> /\ dicts = <<>>
    /\ osPath = <<>> /\ binaries = {} /\ cwdFiles = {}
    /\ lastOp = Op("idle", 0, 0, 0)
    /\ exRun = [cmd |-> 0, mode |-> "idle", program |-> NotFound]

BatchIdle ==
    /\ bSource = <<>> /\ bMax = 0 /\ bBase = <<>> /\ bSize = 0 /\ bIndex = 0
    /\ bOut = <<>> /\ bCmds = <<>> /\ bPc = "idle"

FgIdle ==
    /\ fgCmd = <<>> /\ fgQuiet = FALSE /\ fgCheck = FALSE
    /\ fgProc = <<>> /\ fgResult = <<>> /\ fgPc = "idle"

PipeIdle ==
    /\ ppDepth = 0 /\ ppMode = "idle" /\ ppCheck = FALSE /\ ppProc = <<>>
    /\ ppActive = {} /\ ppRc = 0 /\ ppPc = <<"idle", 0>>

ParIdle ==
    /\ parN = 0 /\ parCpu = 0 /\ parMode = "idle" /\ parCheck = FALSE
    /\ parChunk = 0 /\ parStatus = <<>> /\ parRes = <<>> /\ parWorker = <<>>
    /\ parTaken = 0 /\ parValue = <<>> /\ parSuccess = TRUE /\ parLeft = 0
    /\ parRet = <<>> /\ parEarly = FALSE /\ parPc = "idle"

----------------------------------------------------------------------------
(* Characters and strings *)

SP  == " "
TAB == "\t"
NL  == "\n"
QT  == "\""
EOL == "EOL"   \* the end-of-line marker the csv reader feeds after each line

\* The characters strings are drawn from: a letter, the three kinds of
\* whitespace that differ in the code, and the double quote.
Chars == {"a", SP, TAB, NL, QT}

\* str.isspace() on the model's characters
IsSpace(c) == c \in {SP, TAB, NL}

MaxStrLen == 3

RECURSIVE StringsUpTo(_)
StringsUpTo(n) ==
    IF n = 0 THEN {<<>>}
    ELSE LET S == StringsUpTo(n - 1)
         IN  S \cup {Append(s, c) : s \in {t \in S : Len(t) = n - 1}, c \in Chars}

\* str.strip(): leading and trailing whitespace removed
RECURSIVE LStrip(_)
LStrip(s) == IF s # <<>> /\ IsSpace(Head(s)) THEN LStrip(Tail(s)) ELSE s

RECURSIVE RStrip(_)
RStrip(s) ==
    IF s # <<>> /\ IsSpace(s[Len(s)]) THEN RStrip(SubSeq(s, 1, Len(s) - 1)) ELSE s

Strip(s) == RStrip(LStrip(s))

----------------------------------------------------------------------------
(* Command.__shell_like_split: csv.reader(StringIO(value), delimiter=" ",  *)
(* quotechar='"'), flattened over the rows, empty fields dropped.          *)

\* StringIO iterates by lines, each keeping its "\n"; the reader processes
\* the characters of a line and then an end-of-line marker.
RECURSIVE LineFeed(_)
LineFeed(s) ==
    IF s = <<>> THEN <<>>
    ELSE IF Head(s) = NL THEN <<NL, EOL>> \o LineFeed(Tail(s))
    ELSE IF Len(s) = 1 THEN <<Head(s), EOL>>
    ELSE <<Head(s)>> \o LineFeed(Tail(s))

ReaderStart == [state |-> "START_RECORD", field |-> <<>>, fields |-> <<>>]

SaveField(r, next) == [state |-> next, field |-> <<>>, fields |-> Append(r.fields, r.field)]
AddChar(r, c, next) == [r EXCEPT !.state = next, !.field = Append(r.field, c)]
AfterLine(c) == IF c = EOL THEN "START_RECORD" ELSE "EAT_CRNL"

\* One step of the reader's state machine (excel dialect: doublequote,
\* no escapechar, not strict) with delimiter " " and quotechar '"'.
ProcessChar(r, c) ==
    LET st == IF r.state = "START_RECORD" /\ c \notin {NL, EOL}
              THEN "START_FIELD" ELSE r.state
    IN
    CASE st = "START_RECORD" ->
            IF c = EOL THEN r ELSE [r EXCEPT !.state = "EAT_CRNL"]
      [] st = "START_FIELD" ->
            IF c \in {NL, EOL} THEN SaveField(r, AfterLine(c))
            ELSE IF c = QT THEN [r EXCEPT !.state = "IN_QUOTED_FIELD"]
            ELSE IF c = SP THEN SaveField(r, "START_FIELD")
            ELSE AddChar(r, c, "IN_FIELD")
      [] st = "IN_FIELD" ->
            IF c \in {NL, EOL} THEN SaveField(r, AfterLine(c))
            ELSE IF c = SP THEN SaveField(r, "START_FIELD")
            ELSE AddChar(r, c, "IN_FIELD")
      [] st = "IN_QUOTED_FIELD" ->
            IF c = EOL THEN r
            ELSE IF c = QT THEN [r EXCEPT !.state = "QUOTE_IN_QUOTED_FIELD"]
            ELSE AddChar(r, c, "IN_QUOTED_FIELD")
      [] st = "QUOTE_IN_QUOTED_FIELD" ->
            IF c = QT THEN AddChar(r, QT, "IN_QUOTED_FIELD")
            ELSE IF c = SP THEN SaveField(r, "START_FIELD")
            ELSE IF c \in {NL, EOL} THEN SaveField(r, AfterLine(c))
            ELSE AddChar(r, c, "IN_FIELD")
      [] st = "EAT_CRNL" ->
            IF c = EOL THEN [r EXCEPT !.state = "START_RECORD"] ELSE r

RECURSIVE ProcessAll(_, _)
ProcessAll(r, feed) ==
    IF feed = <<>> THEN r ELSE ProcessAll(ProcessChar(r, Head(feed)), Tail(feed))

\* When the lines run out inside a field, the reader saves what it has.
CsvFields(s) ==
    LET r == ProcessAll(ReaderStart, LineFeed(s))
    IN  IF r.field # <<>> \/ r.state = "IN_QUOTED_FIELD"
        THEN Append(r.fields, r.field) ELSE r.fields

NonEmpty(seq) == SelectSeq(seq, LAMBDA f : f # <<>>)

shell_like_split(value) == NonEmpty(CsvFields(value))

----------------------------------------------------------------------------
(* Arguments of mixed type and Command.__parse_cmd                         *)

\* An argument is a record [kind, text]:
\*   "path"     a pathlib.Path; text is str(path), which is never empty
\*   "quoted"   a QuotedString built from a string; text is that string
\*   "quotedcmd" a QuotedString built from a Command; text is the raw stdout
\*   "command"  a nested Command; text is the raw stdout of running it
\*   "none", "false"   the ignored sentinels
\*   "plain"    any other value; text is str(value)
Item(k, t) == [kind |-> k, text |-> t]

ItemsOver(S) ==
    {Item("path", t) : t \in S \ {<<>>}}
    \cup {Item(k, t) : k \in {"quoted", "quotedcmd", "command", "plain"}, t \in S}
    \cup {Item("none", <<>>), Item("false", <<>>)}

\* Command.stdout(): the captured standard output, stripped
stdout(raw) == Strip(raw)

\* QuotedString.__init__: the value a QuotedString holds
QuotedString(arg) == IF arg.kind = "quotedcmd" THEN stdout(arg.text) ELSE arg.text

parse_cmd_args(arg) ==
    CASE arg.kind = "path" -> <<arg.text>>
      [] arg.kind \in {"quoted", "quotedcmd"} -> <<QuotedString(arg)>>
      [] arg.kind = "command" -> shell_like_split(stdout(arg.text))
      [] arg.kind \in {"none", "false"} -> <<>>
      [] OTHER -> shell_like_split(arg.text)

RECURSIVE parse_cmd(_)
parse_cmd(args) ==
    IF args = <<>> THEN <<>> ELSE parse_cmd_args(Head(args)) \o parse_cmd(Tail(args))

----------------------------------------------------------------------------
(* The tokenizer on its own: __parse_cmd applied to a bounded argument list *)

MaxItems == 2

\* The argument lists of at most n arguments whose texts together hold at
\* most budget characters.
RECURSIVE ArgLists(_, _)
ArgLists(n, budget) ==
    IF n = 0 THEN {<<>>}
    ELSE {<<>>} \cup UNION {
            {<<x>> \o rest : rest \in ArgLists(n - 1, budget - Len(x.text))}
            : x \in ItemsOver(StringsUpTo(budget))}

TokInit ==
    /\ tkItems \in ArgLists(MaxItems, MaxStrLen)
    /\ tkTokens = <<>>
    /\ tkPc = "input"
    /\ CmdIdle /\ BatchIdle /\ FgIdle /\ PipeIdle /\ ParIdle /\ DupIdle

ParseCmd ==
    /\ tkPc = "input"
    /\ tkTokens' = parse_cmd(tkItems)
    /\ tkPc' = "done"
    /\ UNCHANGED <<tkItems, notTok>>

TokNext == ParseCmd


----------------------------------------------------------------------------
(* The splitting rule as the specification words it: every run of          *)
(* whitespace separates, a double-quoted span is one token with the quotes *)
(* stripped, empty fragments are dropped.                                  *)

FlushWord(w) == IF w.cur = <<>> THEN w ELSE [w EXCEPT !.out = Append(w.out, w.cur), !.cur = <<>>]

RECURSIVE WordScan(_, _)
WordScan(w, s) ==
    IF s = <<>> THEN FlushWord(w).out
    ELSE LET c == Head(s)
         IN  WordScan(
               IF c = QT THEN [w EXCEPT !.inq = ~w.inq]
               ELSE IF w.inq THEN [w EXCEPT !.cur = Append(w.cur, c)]
               ELSE IF IsSpace(c) THEN FlushWord(w)
               ELSE [w EXCEPT !.cur = Append(w.cur, c)],
               Tail(s))

WhitespaceSplit(s) == WordScan([inq |-> FALSE, cur |-> <<>>, out |-> <<>>], s)

Contribution(arg) ==
    CASE arg.kind = "path" -> <<arg.text>>
      [] arg.kind = "quoted" -> <<arg.text>>
      [] arg.kind = "quotedcmd" -> <<Strip(arg.text)>>
      [] arg.kind = "command" -> WhitespaceSplit(Strip(arg.text))
      [] arg.kind \in {"none", "false"} -> <<>>
      [] OTHER -> WhitespaceSplit(arg.text)

RECURSIVE Concatenation(_)
Concatenation(args) ==
    IF args = <<>> THEN <<>> ELSE Contribution(Head(args)) \o Concatenation(Tail(args))

\* The double quotes of a text enclose whole fragments: each opening quote
\* starts the text or follows whitespace, each closing quote ends the text
\* or precedes whitespace, and none is left open.  On such texts the wording
\* "a double-quoted span" has one reading.
RECURSIVE QuotesWhole(_, _, _)
QuotesWhole(s, inq, atStart) ==
    IF s = <<>> THEN ~inq
    ELSE IF Head(s) # QT THEN QuotesWhole(Tail(s), inq, ~inq /\ IsSpace(Head(s)))
    ELSE IF inq THEN /\ (Len(s) = 1 \/ IsSpace(s[2]))
                     /\ QuotesWhole(Tail(s), FALSE, FALSE)
    ELSE atStart /\ QuotesWhole(Tail(s), TRUE, FALSE)

SplitText(arg) == IF arg.kind = "command" THEN Strip(arg.text) ELSE arg.text

PlainlyQuoted(args) ==
    \A i \in DOMAIN args :
        args[i].kind \in {"command", "plain"} => QuotesWhole(SplitText(args[i]), FALSE, TRUE)

\* C7: tokenize(items) is the left-to-right concatenation of the items'
\* contributions: one token for a path or a Quoted, none for null/false, and
\* for any other value the split of its text at every run of whitespace
\* with double-quoted spans kept whole and empty fragments dropped.  Stated
\* for the arguments whose quotes enclose whole fragments.
C7_TokenizeSplitsAtWhitespace ==
    (tkPc = "done" /\ PlainlyQuoted(tkItems)) => tkTokens = Concatenation(tkItems)

----------------------------------------------------------------------------
(* Command values.  Python lists and dicts are objects: a Command holds    *)
(* references to its token list and to its env_vars dict.                  *)

Dirs == {"d1", "d2"}
PathValues == {<<"d1">>, <<"d2">>, <<"d1", "d2">>, <<"d2", "d1">>}

\* dicts[DefaultDict] is the one {} object the default env_vars={} denotes
DefaultDict == 1

\* Path(executable).exists(): Path("") is ".", which exists
PathExists(name, files) == name = <<>> \/ name \in files

\* shutil.which(name) / the lookup exec does: the first directory of the
\* search path holding an executable of that name
RECURSIVE which(_, _, _)
which(name, path, bins) ==
    IF path = <<>> THEN NotFound
    ELSE IF <<Head(path), name>> \in bins THEN <<Head(path), name>>
    ELSE which(name, Tail(path), bins)

\* Command.__init__, lines 160-170: the executable attribute
ResolveExecutable(args, path, bins, files) ==
    IF Len(args) = 0 THEN Unset
    ELSE IF PathExists(args[1], files) THEN <<".", args[1]>>
    ELSE which(args[1], path, bins)    \* NotFound: ValueError is raised

NewCommand(argsRef, stdin, envRef, exe) ==
    [args |-> argsRef, stdin_cmd |-> stdin, env_vars |-> envRef, executable |-> exe]

\* {**a, k: v}
DictSet(d, k, v) == [x \in DOMAIN d \cup {k} |-> IF x = k THEN v ELSE d[x]]

EmptyDict == [x \in {} |-> <<>>]

MaxObjects == 3

CmdInit ==
    /\ cmds = <<>>
    /\ lists = <<>>
    /\ dicts = <<EmptyDict>>
    /\ osPath \in PathValues
    /\ binaries \in SUBSET (Dirs \X {<<"a">>})
    /\ cwdFiles \in SUBSET {<<"a">>}
    /\ lastOp = Op("none", 0, 0, 0)
    /\ exRun = [cmd |-> 0, mode |-> "none", program |-> NotFound]
    /\ TokIdle /\ BatchIdle /\ FgIdle /\ PipeIdle /\ ParIdle /\ DupIdle

\* Command(*items, stdin_cmd=stdin, env_vars=dicts[envRef])
Init__(items, stdin, envRef, name) ==
    LET args == parse_cmd(items)
        exe  == ResolveExecutable(args, osPath, binaries, cwdFiles)
    IN  /\ Len(cmds) < MaxObjects
        /\ IF exe = NotFound
           THEN /\ lastOp' = Op(name, stdin, 0, 0)
                /\ UNCHANGED <<cmds, lists, dicts>>
           ELSE /\ lists' = Append(lists, args)
                /\ cmds' = Append(cmds, NewCommand(Len(lists) + 1, stdin, envRef, exe))
                /\ lastOp' = Op(name, stdin, 0, Len(cmds) + 1)
                /\ UNCHANGED dicts
        /\ UNCHANGED <<osPath, binaries, cwdFiles, exRun, notCmd>>

\* cmd(*items)
Construct(items) == Init__(items, 0, DefaultDict, "construct")

\* self(*items): Command.__call__
Call(c, items) ==
    /\ Len(cmds) < MaxObjects
    /\ c \in DOMAIN cmds
    /\ lists' = Append(lists, lists[cmds[c].args] \o parse_cmd(items))
    /\ cmds' = Append(cmds, NewCommand(Len(lists) + 1, 0, cmds[c].env_vars, Unset))
    /\ lastOp' = Op("call", c, 0, Len(cmds) + 1)
    /\ UNCHANGED <<dicts, osPath, binaries, cwdFiles, exRun, notCmd>>

\* self.env(key, value)
Env(c, key, value) ==
    /\ Len(cmds) < MaxObjects
    /\ c \in DOMAIN cmds
    /\ dicts' = Append(dicts, DictSet(dicts[cmds[c].env_vars], key, value))
    /\ cmds' = Append(cmds, NewCommand(cmds[c].args, 0, Len(dicts) + 1, Unset))
    /\ lastOp' = Op("env", c, 0, Len(cmds) + 1)
    /\ UNCHANGED <<lists, osPath, binaries, cwdFiles, exRun, notCmd>>

\* self.pipe(target), target a Command: lines 262-266
Pipe(r, t) ==
    /\ Len(cmds) < MaxObjects
    /\ r \in DOMAIN cmds /\ t \in DOMAIN cmds
    /\ dicts' = Append(dicts, dicts[cmds[r].env_vars])
    /\ cmds' = Append(cmds, NewCommand(cmds[t].args, r, Len(dicts) + 1, Unset))
    /\ lastOp' = Op("pipe", r, t, Len(cmds) + 1)
    /\ UNCHANGED <<lists, osPath, binaries, cwdFiles, exRun, notCmd>>

\* self.pipe(*items), items an argument list: line 268
PipeArgs(r, items) ==
    /\ r \in DOMAIN cmds
    /\ Init__(items, r, cmds[r].env_vars, "pipeargs")

\* The arguments and environment overrides the operations are called with
CmdArgs == ArgLists(1, 1)
EnvKeys == {"K", "PATH"}
EnvValues == {<<"d1">>, <<"d2">>}

CmdNext ==
    \/ \E items \in CmdArgs : Construct(items)
    \/ \E c \in DOMAIN cmds, items \in CmdArgs : Call(c, items)
    \/ \E c \in DOMAIN cmds, k \in EnvKeys, v \in EnvValues : Env(c, k, v)
    \/ \E r \in DOMAIN cmds, t \in DOMAIN cmds : Pipe(r, t)
    \/ \E r \in DOMAIN cmds, items \in CmdArgs : PipeArgs(r, items)

----------------------------------------------------------------------------
(* Executing a Command while the filesystem and the search path change.    *)
(* Every mode hands self.args and env={**os.environ, **self.env_vars} to   *)
(* subprocess; the program started is the one args[0] names at that time.  *)

Modes == {"fg", "run", "stdout", "write_to", "stream"}

\* PATH of {**os.environ, **self.env_vars}
EffectivePath(c) ==
    IF "PATH" \in DOMAIN dicts[cmds[c].env_vars]
    THEN dicts[cmds[c].env_vars]["PATH"] ELSE osPath

\* The program subprocess starts for self.args: args[0] holds no directory,
\* so exec tries it in each directory of the effective PATH.
ProgramStarted(c) == which(lists[cmds[c].args][1], EffectivePath(c), binaries)

Run(c, mode) ==
    /\ c \in DOMAIN cmds
    /\ Len(lists[cmds[c].args]) > 0
    /\ exRun' = [cmd |-> c, mode |-> mode,
                 program |-> IF ProgramStarted(c) = NotFound
                             THEN FileNotFoundError ELSE ProgramStarted(c)]
    /\ UNCHANGED <<cmds, lists, dicts, osPath, binaries, cwdFiles, lastOp, notCmd>>

\* The world outside the Command: os.environ["PATH"] is reassigned,
\* executables and files appear and disappear.
SetPath(p) ==
    /\ osPath' = p /\ p # osPath
    /\ UNCHANGED <<cmds, lists, dicts, binaries, cwdFiles, lastOp, exRun, notCmd>>

SetBinaries(b) ==
    /\ binaries' = b /\ b # binaries
    /\ UNCHANGED <<cmds, lists, dicts, osPath, cwdFiles, lastOp, exRun, notCmd>>

SetCwdFiles(f) ==
    /\ cwdFiles' = f /\ f # cwdFiles
    /\ UNCHANGED <<cmds, lists, dicts, osPath, binaries, lastOp, exRun, notCmd>>

MaxExecObjects == 2

ExecArgs == {<<Item("plain", <<"a">>)>>}

ExecNext ==
    \/ \E items \in ExecArgs : Len(cmds) < MaxExecObjects /\ Construct(items)
    \/ \E c \in DOMAIN cmds, v \in PathValues :
            Len(cmds) < MaxExecObjects /\ Env(c, "PATH", v)
    \/ \E c \in DOMAIN cmds, mode \in Modes : Run(c, mode)
    \/ \E p \in PathValues : SetPath(p)
    \/ \E b \in SUBSET (Dirs \X {<<"a">>}) : SetBinaries(b)
    \/ \E f \in SUBSET {<<"a">>} : SetCwdFiles(f)

\* C4: the executable of a Command is resolved once, at construction: every
\* later execution, in any mode, starts the program resolved at construction,
\* whatever has happened to the filesystem or the search path since.
C4_RunsExecutableResolvedAtConstruction ==
    (exRun.cmd # 0 /\ cmds[exRun.cmd].executable # Unset) =>
        exRun.program = cmds[exRun.cmd].executable

----------------------------------------------------------------------------
(* Properties of Command values *)

Tokens(c) == lists[cmds[c].args]
EnvOf(c) == dicts[cmds[c].env_vars]

\* Every instance that exists keeps its fields and the content of the
\* objects it refers to
ReceiversUnchanged ==
    \A c \in DOMAIN cmds :
        /\ c \in DOMAIN cmds'
        /\ cmds'[c] = cmds[c]
        /\ lists'[cmds[c].args] = lists[cmds[c].args]
        /\ dicts'[cmds[c].env_vars] = dicts[cmds[c].env_vars]

ReturnsNewCommand ==
    lastOp'.raised = None =>
        /\ Len(cmds') = Len(cmds) + 1
        /\ lastOp'.result = Len(cmds')

NoSharedTokenVector ==
    \A c, d \in DOMAIN cmds : c # d => cmds[c].args # cmds[d].args

\* C5: Commands are immutable values: every construct, curry, set-env and
\* pipe operation returns a new Command and leaves its receiver (tokens, env
\* overrides, upstream) unchanged, and no two distinct Command instances
\* share the same token vector.
C5_ImmutableAndUnaliased ==
    [][ReceiversUnchanged /\ ReturnsNewCommand /\ NoSharedTokenVector']_vars

\* C6: r.pipe(t) returns a new Command equal to t (same token vector, same
\* environment overrides) except that its upstream is r.
C6_PipeEqualsTarget ==
    lastOp.op = "pipe" =>
        /\ Tokens(lastOp.result) = Tokens(lastOp.target)
        /\ EnvOf(lastOp.result) = EnvOf(lastOp.target)
        /\ cmds[lastOp.result].stdin_cmd = lastOp.recv

\* C8: the token vector of a Command, however it was built, never contains
\* an empty-string token.
C8_NoEmptyStringToken ==
    \A c \in DOMAIN cmds : \A i \in DOMAIN Tokens(c) : Tokens(c)[i] # <<>>

\* C14: currying a Command (c(items)) and attaching an environment override
\* (c.env(k, v)) keep the receiver's upstream: when the receiver has an
\* upstream Command, the Command returned has the same upstream, which is
\* what __stdin_stream feeds into its input when it is executed.
C14_DerivedKeepsUpstream ==
    (lastOp.op \in {"call", "env"} /\ cmds[lastOp.recv].stdin_cmd # 0) =>
        cmds[lastOp.result].stdin_cmd = cmds[lastOp.recv].stdin_cmd

----------------------------------------------------------------------------
(* batched and Command.foreach: both are generators, advanced one next()   *)
(* at a time.                                                              *)

MaxN == 9
MaxBatch == 6

\* math.ceil(a / b) for a >= 0, b > 0
ceil(a, b) == (a + b - 1) \div b

Min(a, b) == IF a < b THEN a ELSE b

\* str(k) for a non-negative integer
Digit(d) == <<"0", "1", "2", "3", "4", "5", "6", "7", "8", "9">>[d + 1]

RECURSIVE str(_)
str(k) == IF k < 10 THEN <<Digit(k)>> ELSE Append(str(k \div 10), Digit(k % 10))

\* lines 489-490
batch_count(n, max_batch_size) == ceil(n, max_batch_size)

batch_sizeUnbalanced(n, max_batch_size) == max_batch_size

batch_size(n, max_batch_size) == ceil(n, batch_count(n, max_batch_size))

\* source_list[index : min(index + batch_size, len(source_list))]
Slice(list, from, to) == SubSeq(list, from + 1, to)

\* self(*batch): the tokens of the Command foreach yields for a batch
Curried(base, batch) ==
    base \o parse_cmd([i \in 1..Len(batch) |-> Item("plain", str(batch[i]))])

BatchInit ==
    /\ bSource \in {[i \in 1..n |-> i] : n \in 0..MaxN}
    /\ bMax \in 1..MaxBatch
    /\ bBase = <<<<"a">>>>
    /\ bSize = 0 /\ bIndex = 0
    /\ bOut = <<>> /\ bCmds = <<>>
    /\ bPc = "new"
    /\ TokIdle /\ CmdIdle /\ FgIdle /\ PipeIdle /\ ParIdle /\ DupIdle

\* The first next(): the body of batched runs up to its first yield.
\* ceil(0 / max_batch_size) is 0 and the division by it raises.
ForeachFirst ==
    /\ bPc = "new"
    /\ IF batch_count(Len(bSource), bMax) = 0
       THEN /\ bPc' = "raised"
            /\ UNCHANGED <<bSize, bOut, bCmds>>
       ELSE LET size  == batch_size(Len(bSource), bMax)
                batch == Slice(bSource, 0, Min(size, Len(bSource)))
            IN  /\ bSize' = size
                /\ bOut' = <<batch>>
                /\ bCmds' = <<Curried(bBase, batch)>>
                /\ bPc' = "iter"
    /\ UNCHANGED <<bSource, bMax, bBase, bIndex, notBatch>>

\* A later next(): the loop of range(0, len, batch_size) advances
ForeachNext ==
    /\ bPc = "iter"
    /\ LET index == bIndex + bSize
           batch == Slice(bSource, index, Min(index + bSize, Len(bSource)))
       IN  IF index < Len(bSource)
           THEN /\ bIndex' = index
                /\ bOut' = Append(bOut, batch)
                /\ bCmds' = Append(bCmds, Curried(bBase, batch))
                /\ UNCHANGED bPc
           ELSE /\ bPc' = "done"
                /\ UNCHANGED <<bIndex, bOut, bCmds>>
    /\ UNCHANGED <<bSource, bMax, bBase, bSize, notBatch>>

BatchNext == ForeachFirst \/ ForeachNext

RECURSIVE Flatten(_)
Flatten(ss) == IF ss = <<>> THEN <<>> ELSE Head(ss) \o Flatten(Tail(ss))

\* q = ceil(a / b), said without the code's arithmetic
IsCeil(q, a, b) == q * b >= a /\ (q - 1) * b < a

\* C9: for n >= 1 elements and batchSize >= 1, foreach/batched yields exactly
\* ceil(n / batchSize) batches; they are contiguous, in input order, and
\* concatenate to the input; every batch is non-empty and has at most
\* batchSize elements; every batch but the last has exactly
\* ceil(n / batchCount) elements.  foreach yields one Command per batch.
C9_BalancedBatches ==
    (bPc = "done" /\ Len(bSource) >= 1) =>
        /\ IsCeil(Len(bOut), Len(bSource), bMax)
        /\ Flatten(bOut) = bSource
        /\ \A k \in DOMAIN bOut : Len(bOut[k]) >= 1 /\ Len(bOut[k]) <= bMax
        /\ \A k \in 1..(Len(bOut) - 1) : IsCeil(Len(bOut[k]), Len(bSource), Len(bOut))
        /\ Len(bCmds) = Len(bOut)
        /\ \A k \in DOMAIN bCmds :
              bCmds[k] = bBase \o [i \in 1..Len(bOut[k]) |-> str(bOut[k][i])]

\* C9's case: an input that the batch size does not divide, split into
\* several batches that are smaller than batchSize allows
C9_Witness ==
    /\ bPc = "done"
    /\ Len(bOut) >= 2
    /\ Len(bSource) % bMax # 0
    /\ Len(bOut[1]) < bMax

\* C13: for an empty input and any batch size of at least 1, iterating
\* foreach/batched completes without error and yields nothing: zero batches
\* and zero Commands.
C13_EmptyInputYieldsNothing ==
    (bSource = <<>> /\ bMax >= 1 /\ bPc # "new") =>
        (bPc = "done" /\ bOut = <<>> /\ bCmds = <<>>)

----------------------------------------------------------------------------
(* Command.fg *)

MaxExit == 2

\* str(self): arguments holding whitespace are quoted, the upstream comes first
fmt_arg(arg) ==
    IF \E i \in DOMAIN arg : IsSpace(arg[i]) THEN <<QT>> \o arg \o <<QT>> ELSE arg

RECURSIVE JoinArgs(_)
JoinArgs(args) ==
    IF args = <<>> THEN <<>>
    ELSE IF Len(args) = 1 THEN fmt_arg(args[1])
    ELSE fmt_arg(args[1]) \o <<SP>> \o JoinArgs(Tail(args))

Describe(cmd) ==
    (IF cmd.stdin = <<>> THEN <<>> ELSE JoinArgs(cmd.stdin) \o <<SP, "|", SP>>)
    \o JoinArgs(cmd.args)

\* The Commands fg is called on: plain, with an argument to quote, piped
FgCommands ==
    { [args |-> <<<<"a">>>>, stdin |-> <<>>],
      [args |-> <<<<"a">>, <<"a", SP, "a">>>>, stdin |-> <<>>],
      [args |-> <<<<"a">>>>, stdin |-> <<<<"a">>, <<"a">>>>] }

\* What the process writes to stdout and stderr together
FgOutputs == {<<>>, <<"a">>, <<"a", NL>>}

FgInit ==
    /\ fgCmd \in FgCommands
    /\ fgQuiet \in BOOLEAN
    /\ fgCheck \in BOOLEAN
    /\ fgProc = <<>>
    /\ fgResult = <<>>
    /\ fgPc = "call"
    /\ TokIdle /\ CmdIdle /\ BatchIdle /\ PipeIdle /\ ParIdle /\ DupIdle

\* result.stdout: the pipe's content when quiet, None when the process
\* wrote to the terminal itself
Captured(quiet, out) == IF quiet THEN out ELSE None

\* line 221: print(result.stdout)
FgEchoes(quiet, check, rc, out) == rc # 0 /\ quiet /\ check /\ out # <<>>

FgRaisesUnlessQuiet(quiet, check, rc) == rc # 0 /\ check /\ ~quiet

\* lines 220, 223: raise subprocess.CalledProcessError
FgRaises(quiet, check, rc) == rc # 0 /\ check

Fg(rc, out) ==
    /\ fgPc = "call"
    /\ fgProc' = [rc |-> rc, out |-> out]
    /\ fgResult' =
         [outcome  |-> IF FgRaises(fgQuiet, fgCheck, rc) THEN "CalledProcessError"
                       ELSE "returned",
          value    |-> IF FgRaises(fgQuiet, fgCheck, rc) THEN -1 ELSE rc,
          error    |-> IF FgRaises(fgQuiet, fgCheck, rc)
                       THEN [returncode |-> rc, cmd |-> Describe(fgCmd),
                             output |-> Captured(fgQuiet, out)]
                       ELSE [returncode |-> 0, cmd |-> <<>>, output |-> None],
          printed  |-> IF FgEchoes(fgQuiet, fgCheck, rc, out) THEN out ELSE None,
          terminal |-> IF fgQuiet THEN <<>> ELSE out]
    /\ fgPc' = "done"
    /\ UNCHANGED <<fgCmd, fgQuiet, fgCheck, notFg>>

FgNext == \E rc \in 0..MaxExit, out \in FgOutputs : Fg(rc, out)

\* The description of a Command, told from its parts
Description(cmd) ==
    CASE cmd = [args |-> <<<<"a">>>>, stdin |-> <<>>] -> <<"a">>
      [] cmd = [args |-> <<<<"a">>, <<"a", SP, "a">>>>, stdin |-> <<>>] ->
            <<"a", SP, QT, "a", SP, "a", QT>>
      [] OTHER -> <<"a", SP, "a", SP, "|", SP, "a">>

\* C10: foreground(quiet, check) returns the process's exit code; with check
\* set and a non-zero code it fails with NonZeroExit carrying the command's
\* description, the exit code and (if quiet) the captured output; without
\* check it returns the non-zero code; with quiet the captured output is
\* echoed only when the call fails with check set, and quiet never
\* suppresses the failure.
C10_ForegroundResult ==
    fgPc = "done" =>
        /\ (fgCheck /\ fgProc.rc # 0) =>
              /\ fgResult.outcome = "CalledProcessError"
              /\ fgResult.error.returncode = fgProc.rc
              /\ fgResult.error.cmd = Description(fgCmd)
              /\ fgQuiet => fgResult.error.output = fgProc.out
        /\ (~fgCheck \/ fgProc.rc = 0) =>
              /\ fgResult.outcome = "returned"
              /\ fgResult.value = fgProc.rc
        /\ (fgQuiet /\ fgResult.printed # None) =>
              /\ fgResult.outcome = "CalledProcessError" /\ fgCheck
              /\ fgResult.printed = fgProc.out
        /\ fgQuiet => fgResult.terminal = <<>>

\* C10's case: a quiet, checked call whose process fails after writing output
C10_Witness ==
    /\ fgPc = "done"
    /\ fgQuiet /\ fgCheck
    /\ fgProc.rc # 0 /\ fgProc.out # <<>>
    /\ fgResult.outcome = "CalledProcessError"
    /\ fgResult.printed = fgProc.out

----------------------------------------------------------------------------
(* A synchronous execution of a Command with a pipe chain.  Stage 0 is the *)
(* Command run; stage k + 1 is the stdin_cmd of stage k.  The call is      *)
(* interleaved with the processes, which exit when they please.            *)
(*                                                                         *)
(* A process is "unstarted", "running", a "zombie" (exited, exit status    *)
(* not collected) or "reaped" (waited on).                                 *)

MaxDepth == 3

SyncModes == {"fg", "run", "stdout", "write_to"}

PipeInit ==
    /\ ppDepth \in 1..MaxDepth
    /\ ppMode \in SyncModes
    /\ ppCheck \in BOOLEAN
    /\ ppMode = "write_to" => ppCheck      \* write_to calls run(), check=True
    /\ ppProc = [k \in 0..ppDepth |-> "unstarted"]
    /\ ppActive = {}
    /\ ppRc = 0
    /\ ppPc = <<"stream", ppDepth>>        \* __stdin_stream recurses upstream first
    /\ TokIdle /\ CmdIdle /\ BatchIdle /\ FgIdle /\ ParIdle /\ DupIdle

\* inst._internal_poll(): waitpid(WNOHANG) collects a zombie, never blocks
Poll(status) == IF status = "zombie" THEN "reaped" ELSE status

\* subprocess._cleanup(), run when a Popen is created: polls the handles in
\* _active and forgets those whose process it collected
CleanupProc(procs, active) ==
    [k \in DOMAIN procs |-> IF k \in active THEN Poll(procs[k]) ELSE procs[k]]

CleanupActive(procs, active) == {k \in active : Poll(procs[k]) # "reaped"}

\* self.stdin_cmd.stream(): subprocess.Popen starts stage k
Stream(k) ==
    /\ ppPc = <<"stream", k>>
    /\ ppProc' = [CleanupProc(ppProc, ppActive) EXCEPT ![k] = "running"]
    /\ ppActive' = CleanupActive(ppProc, ppActive)
    /\ ppPc' = <<"drop", k>>
    /\ UNCHANGED <<ppDepth, ppMode, ppCheck, ppRc, notPipe>>

\* __stdin_stream returns stream().stdout: the Popen object itself is
\* dropped, and Popen.__del__ polls once and parks a running process in
\* _active
DropHandle(k) ==
    /\ ppPc = <<"drop", k>>
    /\ ppProc' = [ppProc EXCEPT ![k] = Poll(ppProc[k])]
    /\ ppActive' = IF ppProc[k] = "running" THEN ppActive \cup {k} ELSE ppActive
    /\ ppPc' = IF k = 1 THEN <<"run", 0>> ELSE <<"stream", k - 1>>
    /\ UNCHANGED <<ppDepth, ppMode, ppCheck, ppRc, notPipe>>

\* subprocess.run starts the downstream process
StartRun ==
    /\ ppPc = <<"run", 0>>
    /\ ppProc' = [CleanupProc(ppProc, ppActive) EXCEPT ![0] = "running"]
    /\ ppActive' = CleanupActive(ppProc, ppActive)
    /\ ppPc' = <<"wait", 0>>
    /\ UNCHANGED <<ppDepth, ppMode, ppCheck, ppRc, notPipe>>

\* subprocess.run waits for the downstream process, and the call returns
\* its result or raises CalledProcessError
FinishRun ==
    /\ ppPc = <<"wait", 0>>
    /\ ppProc[0] = "zombie"
    /\ ppProc' = [ppProc EXCEPT ![0] = "reaped"]
    /\ ppPc' = IF ppCheck /\ ppRc # 0 THEN <<"raised", 0>> ELSE <<"returned", 0>>
    /\ UNCHANGED <<ppDepth, ppMode, ppCheck, ppActive, ppRc, notPipe>>

\* A process exits
ProcExit(k, rc) ==
    /\ k \in DOMAIN ppProc
    /\ ppProc[k] = "running"
    /\ ppProc' = [ppProc EXCEPT ![k] = "zombie"]
    /\ ppRc' = IF k = 0 THEN rc ELSE ppRc
    /\ UNCHANGED <<ppDepth, ppMode, ppCheck, ppActive, ppPc, notPipe>>

PipeNext ==
    \/ \E k \in 1..MaxDepth : Stream(k)
    \/ \E k \in 1..MaxDepth : DropHandle(k)
    \/ StartRun
    \/ FinishRun
    \/ \E k \in 0..MaxDepth, rc \in 0..1 : ProcExit(k, rc)

PipeCallEnded == ppPc[1] \in {"returned", "raised"}

\* C3: a synchronous execution of a Command with a pipe chain waits on
\* every upstream process it started before it returns or raises: when the
\* call ends, no upstream process is still running or left unwaited.
C3_UpstreamsWaitedWhenCallEnds ==
    PipeCallEnded => \A k \in 1..ppDepth : ppProc[k] = "reaped"

----------------------------------------------------------------------------
(* ParallelCommands: pool.map over a ThreadPool of os.cpu_count() threads. *)
(* map cuts the Commands into chunks; a pool thread takes a chunk and runs *)
(* its Commands one after the other; MapResult collects the chunks.        *)

MaxCmds == 5
MaxCpu == 2

\* What one Command's call can do: fg returns or raises with an exit code
\* (held as <<code>>), stdout returns the stripped output or raises
ParOutcomes(mode, check) ==
    IF mode = "fg"
    THEN {[raised |-> check /\ rc # 0, value |-> <<rc>>] : rc \in 0..1}
    ELSE {[raised |-> FALSE, value |-> stdout(out)] : out \in {<<"a", NL>>, <<"a", "a">>}}
         \cup {[raised |-> TRUE, value |-> <<1>>]}

\* A slot of [None] * length that no result has been stored in
NoValue == <<>>

NoResult == [raised |-> FALSE, value |-> NoValue]

\* Pool._map_async: chunksize, extra = divmod(len, len(pool) * 4)
Chunksize(n, threads) ==
    IF n = 0 THEN 0
    ELSE (n \div (threads * 4)) + (IF n % (threads * 4) # 0 THEN 1 ELSE 0)

\* MapResult.__init__: length // chunksize + bool(length % chunksize)
NumberOfChunks(n, chunksize) ==
    IF chunksize <= 0 THEN 0
    ELSE (n \div chunksize) + (IF n % chunksize # 0 THEN 1 ELSE 0)

\* Pool._get_tasks: the Commands of chunk c (chunks count from 1)
ChunkOf(c) == {i \in 1..parN : (i - 1) \div parChunk = c - 1}

ParInit ==
    /\ parN \in 1..MaxCmds
    /\ parCpu \in 1..MaxCpu
    /\ parMode \in {"fg", "stdout"}
    /\ parCheck \in BOOLEAN
    /\ parMode = "stdout" => parCheck     \* Command.stdout() runs with check=True
    /\ parChunk = 0
    /\ parStatus = [i \in 1..parN |-> "pending"]
    /\ parRes = [i \in 1..parN |-> NoResult]
    /\ parWorker = [w \in 1..parCpu |-> 0]
    /\ parTaken = 0
    /\ parValue = [i \in 1..parN |-> NoValue]
    /\ parSuccess = TRUE
    /\ parLeft = 0
    /\ parRet = <<>>
    /\ parEarly = FALSE
    /\ parPc = "call"
    /\ TokIdle /\ CmdIdle /\ BatchIdle /\ FgIdle /\ PipeIdle /\ DupIdle

\* pool.map(...): the chunks are queued and the caller blocks in get()
MapAsync ==
    /\ parPc = "call"
    /\ parChunk' = Chunksize(parN, parCpu)
    /\ parLeft' = NumberOfChunks(parN, Chunksize(parN, parCpu))
    /\ parPc' = "map"
    /\ UNCHANGED <<parN, parCpu, parMode, parCheck, parStatus, parRes, parWorker,
                   parTaken, parValue, parSuccess, parRet, parEarly, notPar>>

\* An idle pool thread takes the next chunk from the task queue
TakeTask(w) ==
    /\ parPc = "map"
    /\ parWorker[w] = 0
    /\ parTaken < NumberOfChunks(parN, parChunk)
    /\ parWorker' = [parWorker EXCEPT ![w] = parTaken + 1]
    /\ parTaken' = parTaken + 1
    /\ UNCHANGED <<parN, parCpu, parMode, parCheck, parChunk, parStatus, parRes,
                   parValue, parSuccess, parLeft, parRet, parEarly, parPc, notPar>>

\* mapstar: list(map(func, chunk)) calls func on the chunk's next Command
StartCommand(w) ==
    /\ parWorker[w] # 0
    /\ LET mine == ChunkOf(parWorker[w])
       IN  /\ \A i \in mine : parStatus[i] # "running"
           /\ \E i \in mine :
                /\ parStatus[i] = "pending"
                /\ \A j \in mine : j < i => parStatus[j] = "done"
                /\ parStatus' = [parStatus EXCEPT ![i] = "running"]
    /\ UNCHANGED <<parN, parCpu, parMode, parCheck, parChunk, parRes, parWorker,
                   parTaken, parValue, parSuccess, parLeft, parRet, parEarly, parPc,
                   notPar>>

\* self._value[i*chunksize:(i+1)*chunksize] = result, for chunk c = i + 1
SetSliceInArrivalOrder(value, c, result) ==
    LET filled == Cardinality({k \in DOMAIN value : value[k] # NoValue})
    IN  [k \in DOMAIN value |->
            IF k > filled /\ k <= filled + Len(result) THEN result[k - filled]
            ELSE value[k]]

SetSlice(value, c, result) ==
    [k \in DOMAIN value |->
        IF (c - 1) * parChunk < k /\ k <= (c - 1) * parChunk + Len(result)
        THEN result[k - (c - 1) * parChunk]
        ELSE value[k]]

\* The results of chunk c once its last Command i returned r
ChunkResult(c, i, r) ==
    LET first == (c - 1) * parChunk + 1
    IN  [k \in 1..(i - first + 1) |->
            IF first + k - 1 = i THEN r.value ELSE parRes[first + k - 1].value]

\* The Command's process ends and its call returns or raises.  An exception
\* ends list(map(...)): the rest of the chunk is never called, and the
\* thread posts (False, exception).  After the chunk's last Command the
\* thread posts (True, results).  MapResult._set takes what was posted.
FinishCommand(w, i, r) ==
    /\ parWorker[w] # 0
    /\ i \in ChunkOf(parWorker[w])
    /\ parStatus[i] = "running"
    /\ parRes' = [parRes EXCEPT ![i] = r]
    /\ parEarly' = (parEarly \/ \E j \in 1..(i - 1) : parStatus[j] \in {"pending", "running"})
    /\ LET c    == parWorker[w]
           last == \A j \in ChunkOf(c) : j <= i
       IN  IF r.raised
           THEN /\ parStatus' = [j \in 1..parN |->
                                   IF j = i THEN "done"
                                   ELSE IF j \in ChunkOf(c) /\ j > i THEN "never"
                                   ELSE parStatus[j]]
                /\ parWorker' = [parWorker EXCEPT ![w] = 0]
                /\ parLeft' = parLeft - 1
                /\ parSuccess' = FALSE
                /\ parValue' = IF parSuccess THEN [exception |-> i, code |-> r.value]
                               ELSE parValue
           ELSE IF last
           THEN /\ parStatus' = [parStatus EXCEPT ![i] = "done"]
                /\ parWorker' = [parWorker EXCEPT ![w] = 0]
                /\ parLeft' = parLeft - 1
                /\ parValue' = IF parSuccess THEN SetSlice(parValue, c, ChunkResult(c, i, r))
                               ELSE parValue
                /\ UNCHANGED parSuccess
           ELSE /\ parStatus' = [parStatus EXCEPT ![i] = "done"]
                /\ UNCHANGED <<parWorker, parLeft, parValue, parSuccess>>
    /\ UNCHANGED <<parN, parCpu, parMode, parCheck, parChunk, parTaken, parRet, parPc,
                   notPar>>

\* MapResult.get(): ready once every chunk has reported; returns the list
\* or raises the stored exception; the with block then ends the pool
MapGet ==
    /\ parPc = "map"
    /\ parLeft = 0
    /\ parRet' = parValue
    /\ parPc' = IF parSuccess THEN "returned" ELSE "raised"
    /\ UNCHANGED <<parN, parCpu, parMode, parCheck, parChunk, parStatus, parRes,
                   parWorker, parTaken, parValue, parSuccess, parLeft, parEarly, notPar>>

ParNext ==
    \/ MapAsync
    \/ \E w \in 1..MaxCpu : w \in DOMAIN parWorker /\ TakeTask(w)
    \/ \E w \in 1..MaxCpu : w \in DOMAIN parWorker /\ StartCommand(w)
    \/ \E w \in 1..MaxCpu, i \in 1..MaxCmds, r \in ParOutcomes(parMode, parCheck) :
            w \in DOMAIN parWorker /\ FinishCommand(w, i, r)
    \/ MapGet

ParCallEnded == parPc \in {"returned", "raised"}

\* C1: the list parallel(...).fg() / .stdout() returns has one entry per
\* Command, and entry i is the result of the i-th submitted Command,
\* whatever the order in which the processes finish.
C1_ResultsInSubmissionOrder ==
    parPc = "returned" =>
        /\ Len(parRet) = parN
        /\ \A i \in 1..parN : parRes[i] # NoResult /\ parRet[i] = parRes[i].value

\* C1's case: a list was returned although some Command finished before one
\* submitted ahead of it, and the results differ
C1_Witness ==
    /\ parPc = "returned"
    /\ parEarly
    /\ \E i, j \in 1..parN : parRet[i] # parRet[j]

\* C2: with check set, the failure of a Command never cancels a sibling:
\* every submitted Command runs to completion, and the call neither returns
\* nor raises before that, for any number of Commands and any pool size.
C2_EverySiblingRunsToCompletion ==
    (ParCallEnded /\ parCheck) => \A i \in 1..parN : parStatus[i] = "done"

\* The Commands whose fg()/stdout() call raised
Failed == {i \in 1..parN : parRes[i].raised}

\* C12: when several Commands of one parallel execution fail under check,
\* the exception the call raises is that of the first failing Command in
\* submission order, whatever the order of the failures in time.
C12_FirstFailureInSubmissionOrder ==
    (parPc = "raised" /\ Cardinality(Failed) >= 2) =>
        \A i \in Failed : parRet.exception <= i

----------------------------------------------------------------------------
(* The syscall-table duplicate filter (jail/seccomp/detect_duplication.py) *)

HASH  == "#"
COLON == ":"

MaxLines == 3

\* The lines standard input is drawn from, as sys.stdin.readlines() returns
\* them: an optional comment mark, a name, optional blank, optional colon,
\* and the line end.
DupLines ==
    {hash \o key \o sep \o colon \o <<NL>> :
        hash \in {<<>>, <<HASH>>}, key \in {<<"a">>, <<"b">>},
        sep \in {<<>>, <<SP>>}, colon \in {<<>>, <<COLON>>}}

RECURSIVE LinesUpTo(_)
LinesUpTo(n) ==
    IF n = 0 THEN {<<>>}
    ELSE LET S == LinesUpTo(n - 1)
         IN  S \cup {Append(d, l) : d \in {t \in S : Len(t) = n - 1}, l \in DupLines}

\* l.startswith("#")
startswith(l, c) == l # <<>> /\ l[1] = c

\* ":" in l
contains(l, c) == \E k \in DOMAIN l : l[k] = c

\* l.split()[0]: the first maximal run of non-whitespace characters
RECURSIVE UntilSpace(_)
UntilSpace(s) ==
    IF s = <<>> \/ IsSpace(Head(s)) THEN <<>>
    ELSE <<Head(s)>> \o UntilSpace(Tail(s))

syscall(l) == UntilSpace(LStrip(l))

\* syscall in last_seen, last_seen[syscall]
InLastSeen(key) == \E p \in dupSeen : p[1] = key
LastSeen(key) == (CHOOSE p \in dupSeen : p[1] = key)[2]

\* data = list(map(str.strip, sys.stdin.readlines())); last_seen = dict()
DupInit ==
    /\ dupInput \in LinesUpTo(MaxLines)
    /\ dupData = [k \in DOMAIN dupInput |-> Strip(dupInput[k])]
    /\ dupIndex = 0
    /\ dupSeen = {}
    /\ dupOut = <<>>
    /\ dupExit = NoExit
    /\ dupPc = "loop"
    /\ TokIdle /\ CmdIdle /\ BatchIdle /\ FgIdle /\ PipeIdle /\ ParIdle

\* One iteration of the loop over enumerate(data).  sys.exit(message) ends the
\* process with status 1; what was printed before it stays printed.
Iterate ==
    /\ dupPc = "loop"
    /\ dupIndex < Len(dupData)
    /\ LET l == dupData[dupIndex + 1]
           keyed == ~startswith(l, HASH) /\ contains(l, COLON)
       IN  IF keyed /\ InLastSeen(syscall(l))
           THEN /\ dupExit' = [status |-> 1,
                               message |-> <<syscall(l), dupIndex, LastSeen(syscall(l))>>]
                /\ dupPc' = "exited"
                /\ UNCHANGED <<dupIndex, dupSeen, dupOut>>
           ELSE /\ dupSeen' = IF keyed THEN dupSeen \cup {<<syscall(l), dupIndex>>}
                              ELSE dupSeen
                /\ dupOut' = Append(dupOut, l)
                /\ dupIndex' = dupIndex + 1
                /\ UNCHANGED <<dupExit, dupPc>>
    /\ UNCHANGED <<dupInput, dupData, notDup>>

\* The loop is over: the script ends and the process exits with status 0
EndOfInput ==
    /\ dupPc = "loop"
    /\ dupIndex = Len(dupData)
    /\ dupExit' = [status |-> 0, message |-> <<>>]
    /\ dupPc' = "exited"
    /\ UNCHANGED <<dupInput, dupData, dupIndex, dupSeen, dupOut, notDup>>

DupNext == Iterate \/ EndOfInput

\* The pairs <<i, j>> of line indices (from 0) where line j is a non-comment
\* line with a colon whose leading key line i, of the same kind, already has
DefinitionLine(d, i) ==
    /\ i + 1 \in DOMAIN d
    /\ ~startswith(d[i + 1], HASH)
    /\ contains(d[i + 1], COLON)

Redefinitions(d) ==
    {p \in (0 .. Len(d) - 1) \X (0 .. Len(d) - 1) :
        /\ p[1] < p[2]
        /\ DefinitionLine(d, p[1]) /\ DefinitionLine(d, p[2])
        /\ syscall(d[p[1] + 1]) = syscall(d[p[2] + 1])}

\* The abort the text describes, without what it says of standard output
AbortCitesBothLines ==
    /\ dupExit.status # 0
    /\ \E p \in Redefinitions(dupData) :
          dupExit.message = <<syscall(dupData[p[2] + 1]), p[2], p[1]>>

\* C11: on an input in which a non-comment line with a colon repeats the
\* leading key of an earlier such line, the process ends with a non-zero
\* status and a message citing the index of the current line and the index
\* of the original definition, and nothing was written to standard output.
C11_AbortsWithoutOutput ==
    (dupPc = "exited" /\ Redefinitions(dupData) # {}) =>
        (AbortCitesBothLines /\ dupOut = <<>>)

----------------------------------------------------------------------------
(* Specifications *)

SpecTok == TokInit /\ [][TokNext]_vars

SpecCmd == CmdInit /\ [][CmdNext]_vars

SpecExec == CmdInit /\ [][ExecNext]_vars

SpecBatch == BatchInit /\ [][BatchNext]_vars

SpecFg == FgInit /\ [][FgNext]_vars

SpecPipe == PipeInit /\ [][PipeNext]_vars

SpecPar == ParInit /\ [][ParNext]_vars

SpecDup == DupInit /\ [][DupNext]_vars

====
